---- MODULE Spec2Model ----
(***************************************************************************)
(* Model of the fitness-tracker stores: the workout store (workoutStore)   *)
(* and the goal store (goalStore), both zustand stores holding one         *)
(* collection each, and the pure queries computed from them.               *)
(*                                                                         *)
(* Records are TLA+ records keyed by the TypeScript field names; an        *)
(* optional field that is not set is a key that is absent.  Calendar dates *)
(* and timestamps are day numbers.  uuidv4() is a source of ids that never *)
(* returns the same id twice, modelled by the counter nextId.              *)
(***************************************************************************)
EXTENDS Integers, Sequences, FiniteSets, TLC

VARIABLES
    workouts,       \* WorkoutState.workouts
    workoutError,   \* WorkoutState.error
    goals,          \* GoalState.goals
    goalError,      \* GoalState.error
    nextId,         \* the next id uuidv4() hands out
    steps,          \* number of store calls made so far
    last,           \* the store call that produced this state
    preWorkouts,    \* workouts as they were when that call started
    preGoals,       \* goals as they were when that call started
    env,            \* the browser: the clock (hours since the epoch, UTC)
                    \* and the time zone (hours east of UTC)
    themeStore,     \* ThemeState: theme and resolvedTheme
    prefersDark     \* matchMedia('(prefers-color-scheme: dark)').matches

vars == <<workouts, workoutError, goals, goalError, nextId, steps, last,
          preWorkouts, preGoals, env, themeStore, prefersDark>>

----------------------------------------------------------------------------
(* Bounds *)

\* Store calls explored per run.
MaxOps == 2

\* Theme store calls, events and loads explored per run.
MaxThemeOps == 3

\* Size of the workout collections the statistics are computed from.
MaxStatWorkouts == 3

\* The workout dates of those collections: from DaysBack days before Today
\* to DaysAhead days after it.
DaysBack == 2

DaysAhead == 1

\* The day number of "today" (new Date()).
Today == 20

----------------------------------------------------------------------------
(* JavaScript helpers *)

\* { ...a, ...b }: every key of a and b, b winning where both have it.
Spread(a, b) ==
    [k \in DOMAIN a \cup DOMAIN b |-> IF k \in DOMAIN b THEN b[k] ELSE a[k]]

\* error: null
Null == "null"

\* The result of Array.prototype.find when nothing matches.
Undefined == <<>>

Max(a, b) == IF a >= b THEN a ELSE b

Ids(coll) == {coll[i].id : i \in 1..Len(coll)}

\* uuidv4(): a fresh id.
uuidv4 == nextId

\* new Date().toISOString()
NowISO == Today

----------------------------------------------------------------------------
(* Built-in sample data *)

sampleWorkouts ==
    << [id |-> 1, name |-> "Morning Run", exerciseType |-> "cardio",
        duration |-> 30, calories |-> 300, intensity |-> "medium",
        date |-> Today, createdAt |-> Today],
       [id |-> 2, name |-> "Weight Training", exerciseType |-> "strength",
        duration |-> 45, calories |-> 250, sets |-> 4, reps |-> 12,
        weight |-> 50, intensity |-> "high",
        date |-> Today - 1, createdAt |-> Today - 1],
       [id |-> 3, name |-> "Yoga Session", exerciseType |-> "flexibility",
        duration |-> 60, calories |-> 180, intensity |-> "low",
        date |-> Today - 2, createdAt |-> Today - 2],
       [id |-> 4, name |-> "HIIT Workout", exerciseType |-> "cardio",
        duration |-> 25, calories |-> 400, intensity |-> "high",
        date |-> Today - 3, createdAt |-> Today - 3],
       [id |-> 5, name |-> "Basketball", exerciseType |-> "sports",
        duration |-> 90, calories |-> 600, intensity |-> "high",
        date |-> Today - 4, createdAt |-> Today - 4] >>

sampleGoals ==
    << [id |-> 6, title |-> "Complete 20 Workouts",
        description |-> "Complete at least 20 workout sessions this month",
        targetType |-> "workouts_count", targetValue |-> 20,
        currentValue |-> 5, startDate |-> Today - 15, endDate |-> Today + 15,
        status |-> "active", createdAt |-> Today - 15],
       [id |-> 7, title |-> "Burn 5000 Calories",
        description |-> "Burn a total of 5000 calories through exercise",
        targetType |-> "calories_burned", targetValue |-> 5000,
        currentValue |-> 1730, startDate |-> Today - 10, endDate |-> Today + 20,
        status |-> "active", createdAt |-> Today - 10],
       [id |-> 8, title |-> "Exercise 500 Minutes",
        description |-> "Accumulate 500 minutes of total exercise time",
        targetType |-> "total_duration", targetValue |-> 500,
        currentValue |-> 250, startDate |-> Today - 20, endDate |-> Today + 10,
        status |-> "active", createdAt |-> Today - 20] >>

----------------------------------------------------------------------------
(* Inputs *)

\* An id no record carries.
NonExistentId == 0

\* WorkoutFormData values passed to addWorkout.
WorkoutInputs ==
    { [name |-> "Workout 1", exerciseType |-> "cardio", duration |-> 30,
       calories |-> 300, intensity |-> "medium", date |-> Today - 1],
      [name |-> "Workout 2", exerciseType |-> "strength", duration |-> 45,
       calories |-> 250, sets |-> 3, reps |-> 10, weight |-> 40,
       intensity |-> "high", notes |-> "legs", date |-> Today],
      [name |-> "Push-ups", exerciseType |-> "strength", duration |-> 15,
       calories |-> 100, sets |-> 3, reps |-> 15, intensity |-> "medium",
       date |-> Today] }

\* Partial<WorkoutFormData> values passed to updateWorkout.
WorkoutPatches ==
    { [name |-> "Updated Name", duration |-> 45],
      [calories |-> 350],
      [name |-> "Evening Ride", exerciseType |-> "cardio", duration |-> 50,
       calories |-> 420, intensity |-> "low", date |-> Today] }

\* GoalFormData values passed to addGoal.
GoalInputs ==
    { [title |-> "Five workouts", targetType |-> "workouts_count",
       targetValue |-> 5, startDate |-> Today, endDate |-> Today + 30],
      [title |-> "Lift 20 kg", description |-> "bench press",
       targetType |-> "weight_lifted", targetValue |-> 20,
       startDate |-> Today, endDate |-> Today + 7] }

\* Partial<Goal> values passed to updateGoal.
GoalPatches ==
    { [targetValue |-> 10],
      [title |-> "Renamed", description |-> "edited",
       targetType |-> "total_duration", targetValue |-> 300,
       startDate |-> Today - 1, endDate |-> Today + 5] }

\* Values passed to updateProgress.
ProgressValues == {-1, 20, 6000}

\* The (date, exerciseType) choices of the workouts the statistics are
\* computed from.
StatChoices ==
    [date : (Today - DaysBack)..(Today + DaysAhead),
     type : {"cardio", "strength"}]

\* A workout as the workout form produces it, stored at position i.
StatWorkout(i, c) ==
    [id |-> i, name |-> "Workout", exerciseType |-> c.type,
     duration |-> IF c.type = "cardio" THEN 30 ELSE 45,
     calories |-> IF c.type = "cardio" THEN 300 ELSE 250,
     intensity |-> "medium", date |-> c.date, createdAt |-> Today]

\* The collections of n workouts the statistics are computed from.
StatCollections(n) ==
    { [i \in 1..n |-> StatWorkout(i, f[i])] : f \in [1..n -> StatChoices] }

\* The browsers the Dashboard runs in: early and late in the UTC day, in a
\* time zone west of UTC, at UTC and east of UTC.
StatEnvs == [now : {Today * 24 + 1, Today * 24 + 22}, tz : {-5, 0, 3}]

\* Ids passed to the by-id operations of a store holding coll: the ids on
\* display, the ids of the records the previous call saw, and an unknown one.
CandidateIds(coll, old) == Ids(coll) \cup Ids(old) \cup {NonExistentId}

----------------------------------------------------------------------------
(* Workout store *)

\* Mutant: the id is taken from the collection's length.
NewWorkoutIdFromLength(data) ==
    Spread(data, [id |-> Len(workouts) + 1, createdAt |-> NowISO])

\* The record addWorkout builds.
NewWorkout(data) == Spread(data, [id |-> uuidv4, createdAt |-> NowISO])

\* Mutant: the new record is put at the end.
addWorkoutAppends(ws, data) == ws \o <<NewWorkout(data)>>

\* workouts: [newWorkout, ...state.workouts]
addWorkout(ws, data) == <<NewWorkout(data)>> \o ws

\* Mutant: the id test is dropped, every record is merged with data.
updateWorkoutEvery(ws, id, data) ==
    [i \in 1..Len(ws) |-> Spread(ws[i], data)]

\* state.workouts.map(w => w.id === id ? { ...w, ...data } : w)
updateWorkout(ws, id, data) ==
    [i \in 1..Len(ws) |-> IF ws[i].id = id THEN Spread(ws[i], data) ELSE ws[i]]

\* Mutant: the filter keeps the matching record instead of dropping it.
KeepsWorkoutInverted(id, w) == w.id = id

\* The predicate of deleteWorkout's filter.
KeepsWorkout(id, w) == w.id # id

\* state.workouts.filter(w => w.id !== id)
deleteWorkout(ws, id) == SelectSeq(ws, LAMBDA w : KeepsWorkout(id, w))

\* get().workouts.find(w => w.id === id): <<w>> for the first match.
getWorkoutById(ws, id) ==
    IF \E i \in 1..Len(ws) : ws[i].id = id
    THEN LET first == CHOOSE i \in 1..Len(ws) :
                          /\ ws[i].id = id
                          /\ \A j \in 1..(i - 1) : ws[j].id # id
         IN <<ws[first]>>
    ELSE Undefined

\* Mutant: calories are accumulated from the duration field.
StatsStepWrongField(acc, workout) ==
    [duration |-> acc.duration + workout.duration,
     calories |-> acc.calories + workout.duration,
     count |-> acc.count + 1]

\* The reducer of getTotalStats.
StatsStep(acc, workout) ==
    [duration |-> acc.duration + workout.duration,
     calories |-> acc.calories + workout.calories,
     count |-> acc.count + 1]

RECURSIVE Reduce(_, _)
Reduce(ws, acc) ==
    IF ws = <<>> THEN acc ELSE Reduce(Tail(ws), StatsStep(acc, Head(ws)))

\* workouts.reduce(..., { duration: 0, calories: 0, count: 0 })
getTotalStats(ws) == Reduce(ws, [duration |-> 0, calories |-> 0, count |-> 0])

----------------------------------------------------------------------------
(* Goal store *)

\* Mutant: a new goal starts with its target already reached.
NewGoalAtTarget(data) ==
    Spread(data, [id |-> uuidv4, currentValue |-> data.targetValue,
                  status |-> "active", createdAt |-> NowISO])

\* The record addGoal builds.
NewGoal(data) ==
    Spread(data, [id |-> uuidv4, currentValue |-> 0, status |-> "active",
                  createdAt |-> NowISO])

addGoal(gs, data) == <<NewGoal(data)>> \o gs

\* Mutant: an id that matches nothing creates the record (an upsert).
updateGoalUpsert(gs, id, data) ==
    IF id \in Ids(gs)
    THEN [i \in 1..Len(gs) |->
             IF gs[i].id = id THEN Spread(gs[i], data) ELSE gs[i]]
    ELSE <<Spread([id |-> id], data)>> \o gs

\* state.goals.map(g => g.id === id ? { ...g, ...data } : g)
updateGoal(gs, id, data) ==
    [i \in 1..Len(gs) |-> IF gs[i].id = id THEN Spread(gs[i], data) ELSE gs[i]]

deleteGoal(gs, id) == SelectSeq(gs, LAMBDA g : g.id # id)

\* Mutant: the value is stored without the clamp at 0.
ProgressedGoalUnclamped(goal, value) ==
    LET isComplete == value >= goal.targetValue
    IN Spread(goal, [currentValue |-> value,
                     status |-> IF isComplete THEN "completed" ELSE goal.status])

\* The goal updateProgress returns for the matching goal.
ProgressedGoal(goal, value) ==
    LET newValue == Max(0, value)
        isComplete == newValue >= goal.targetValue
    IN Spread(goal, [currentValue |-> newValue,
                     status |-> IF isComplete THEN "completed" ELSE goal.status])

updateProgress(gs, id, value) ==
    [i \in 1..Len(gs) |->
        IF gs[i].id # id THEN gs[i] ELSE ProgressedGoal(gs[i], value)]

\* Mutant: completing never lowers the progress already stored.
completeGoalKeepsExcess(gs, id) ==
    [i \in 1..Len(gs) |->
        IF gs[i].id = id
        THEN Spread(gs[i], [status |-> "completed",
                            currentValue |-> Max(gs[i].currentValue,
                                                 gs[i].targetValue)])
        ELSE gs[i]]

completeGoal(gs, id) ==
    [i \in 1..Len(gs) |->
        IF gs[i].id = id
        THEN Spread(gs[i], [status |-> "completed",
                            currentValue |-> gs[i].targetValue])
        ELSE gs[i]]

cancelGoal(gs, id) ==
    [i \in 1..Len(gs) |->
        IF gs[i].id = id THEN Spread(gs[i], [status |-> "cancelled"]) ELSE gs[i]]

\* Mutant: reactivation starts the goal over.
reactivateGoalResets(gs, id) ==
    [i \in 1..Len(gs) |->
        IF gs[i].id = id
        THEN Spread(gs[i], [status |-> "active", currentValue |-> 0])
        ELSE gs[i]]

reactivateGoal(gs, id) ==
    [i \in 1..Len(gs) |->
        IF gs[i].id = id THEN Spread(gs[i], [status |-> "active"]) ELSE gs[i]]

\* get().goals.find(g => g.id === id): <<g>> for the first match.
getGoalById(gs, id) ==
    IF \E i \in 1..Len(gs) : gs[i].id = id
    THEN LET first == CHOOSE i \in 1..Len(gs) :
                          /\ gs[i].id = id
                          /\ \A j \in 1..(i - 1) : gs[j].id # id
         IN <<gs[first]>>
    ELSE Undefined

\* A JavaScript number that need not be an integer: the fraction num / den
\* with den > 0, or NaN.
Num(n) == [num |-> n, den |-> 1]

NaN == [num |-> 0, den |-> 0]

\* a / b * 100 in floating point, for integers a and b.
PercentOf(a, b) ==
    IF b > 0 THEN [num |-> a * 100, den |-> b]
    ELSE IF b < 0 THEN [num |-> (0 - a) * 100, den |-> 0 - b]
    ELSE IF a = 0 THEN NaN
    ELSE [num |-> a * 1000000, den |-> 1]   \* +-Infinity, as a huge value

\* Mutant: the percentage is returned without the cap.
MinHundredMissing(x) == x

\* Math.min(100, x)
MinHundred(x) ==
    IF x = NaN THEN NaN
    ELSE IF x.num >= 100 * x.den THEN Num(100) ELSE x

\* getGoalProgress
getGoalProgress(gs, id) ==
    LET goal == getGoalById(gs, id)
    IN IF goal = Undefined THEN Num(0)
       ELSE MinHundred(PercentOf(goal[1].currentValue, goal[1].targetValue))

----------------------------------------------------------------------------
(* Dates.  A calendar date string "YYYY-MM-DD" is its day number since the *)
(* epoch, an instant (a Date) is a number of hours since the epoch, and a  *)
(* time zone is a fixed whole number of hours east of UTC.                 *)

\* new Date("YYYY-MM-DD"): a date-only string is midnight UTC of that day.
ParseDate(dateStr) == dateStr * 24

\* date.setHours(0, 0, 0, 0): midnight of the date's local calendar day.
SetHoursZero(t, tz) == ((t + tz) \div 24) * 24 - tz

\* date.toISOString().split('T')[0]: the UTC calendar day.
ToISODate(t) == t \div 24

\* date.getDay(): the local day of the week, 0 = Sunday (day 0 of the epoch
\* was a Thursday).
GetDay(t, tz) == (((t + tz) \div 24) + 4) % 7

\* date.setDate(date.getDate() + n)
AddDays(t, n) == t + n * 24

\* Math.floor(ms / (1000 * 60 * 60 * 24))
FloorDays(hours) == hours \div 24

----------------------------------------------------------------------------
(* Statistics *)

\* Array.prototype.sort with (a, b) => new Date(b) - new Date(a): a stable
\* sort of date strings, most recent first.
RECURSIVE InsertDesc(_, _)
InsertDesc(sorted, d) ==
    IF sorted = <<>> THEN <<d>>
    ELSE IF ParseDate(Head(sorted)) >= ParseDate(d)
         THEN <<Head(sorted)>> \o InsertDesc(Tail(sorted), d)
         ELSE <<d>> \o sorted

RECURSIVE SortDesc(_)
SortDesc(ds) ==
    IF ds = <<>> THEN <<>>
    ELSE InsertDesc(SortDesc(SubSeq(ds, 1, Len(ds) - 1)), ds[Len(ds)])

\* [...new Set(ds)]: the distinct values in order of first appearance.
RECURSIVE Unique(_)
Unique(ds) ==
    IF ds = <<>> THEN <<>>
    ELSE LET front == Unique(SubSeq(ds, 1, Len(ds) - 1))
             d == ds[Len(ds)]
         IN IF \E i \in 1..Len(front) : front[i] = d
            THEN front ELSE Append(front, d)

\* uniqueDates of calculateStreak.
uniqueDates(ws) ==
    SortDesc(Unique(SortDesc([i \in 1..Len(ws) |-> ws[i].date])))

\* i === 0 && diffDays > 1
FirstDateTooOld(i, diffDays) == i = 0 /\ diffDays > 1

\* The for loop of calculateStreak from index i (0-based) with the streak
\* counted so far.
RECURSIVE StreakLoop(_, _, _, _, _)
StreakLoop(dates, today, tz, i, streak) ==
    IF i >= Len(dates) THEN streak
    ELSE LET workoutDate == SetHoursZero(ParseDate(dates[i + 1]), tz)
             diffDays == FloorDays(today - workoutDate)
         IN IF FirstDateTooOld(i, diffDays) THEN 0
            ELSE IF i > 0
                    /\ FloorDays(ParseDate(dates[i]) - workoutDate) > 1
                 THEN streak
                 ELSE StreakLoop(dates, today, tz, i + 1, streak + 1)

calculateStreak(ws, e) ==
    IF Len(ws) = 0 THEN 0
    ELSE StreakLoop(uniqueDates(ws), SetHoursZero(e.now, e.tz), e.tz, 0, 0)

getDayNames == <<"Sun", "Mon", "Tue", "Wed", "Thu", "Fri", "Sat">>

\* array.reduce((sum, w) => sum + w[field], 0)
RECURSIVE SumReduce(_, _)
SumReduce(ws, field) ==
    IF ws = <<>> THEN 0
    ELSE SumReduce(SubSeq(ws, 1, Len(ws) - 1), field) + ws[Len(ws)][field]

\* weekStart of the Dashboard's weeklySummary.
weekStart(e) == SetHoursZero(AddDays(e.now, 0 - GetDay(e.now, e.tz)), e.tz)

\* The date string weeklySummary filters entry index (0-based) by.
weekDateStr(e, index) == ToISODate(AddDays(weekStart(e), index))

\* The Dashboard's weeklySummary.
weeklySummary(ws, e) ==
    [k \in 1..Len(getDayNames) |->
        LET dateStr == weekDateStr(e, k - 1)
            dayWorkouts == SelectSeq(ws, LAMBDA w : w.date = dateStr)
        IN [day |-> getDayNames[k],
            workouts |-> Len(dayWorkouts),
            duration |-> SumReduce(dayWorkouts, "duration"),
            calories |-> SumReduce(dayWorkouts, "calories")]]

exerciseTypeConfig ==
    [cardio |-> [label |-> "Cardio", color |-> "#ef4444"],
     strength |-> [label |-> "Strength", color |-> "#3b82f6"],
     flexibility |-> [label |-> "Flexibility", color |-> "#10b981"],
     balance |-> [label |-> "Balance", color |-> "#f59e0b"],
     sports |-> [label |-> "Sports", color |-> "#8b5cf6"]]

\* Mutant: a type seen for the first time starts at 0 and is counted from
\* its second workout on.
CountOneMoreFromZero(distribution, type) ==
    IF \E i \in 1..Len(distribution) : distribution[i].type = type
    THEN [i \in 1..Len(distribution) |->
             IF distribution[i].type = type
             THEN [type |-> type, count |-> distribution[i].count + 1]
             ELSE distribution[i]]
    ELSE Append(distribution, [type |-> type, count |-> 0])

\* distribution[type] = (distribution[type] || 0) + 1, the object's keys
\* kept in insertion order.
CountOneMore(distribution, type) ==
    IF \E i \in 1..Len(distribution) : distribution[i].type = type
    THEN [i \in 1..Len(distribution) |->
             IF distribution[i].type = type
             THEN [type |-> type, count |-> distribution[i].count + 1]
             ELSE distribution[i]]
    ELSE Append(distribution, [type |-> type, count |-> 1])

\* workouts.forEach(...) of exerciseDistribution.
RECURSIVE CountTypes(_)
CountTypes(ws) ==
    IF ws = <<>> THEN <<>>
    ELSE CountOneMore(CountTypes(SubSeq(ws, 1, Len(ws) - 1)),
                      ws[Len(ws)].exerciseType)

\* The Dashboard's exerciseDistribution: Object.entries(distribution).map.
exerciseDistribution(ws) ==
    LET distribution == CountTypes(ws)
    IN [i \in 1..Len(distribution) |->
           [name |-> exerciseTypeConfig[distribution[i].type].label,
            value |-> distribution[i].count,
            color |-> exerciseTypeConfig[distribution[i].type].color]]

\* The Dashboard's stats.
dashboardStats(ws, gs, e) ==
    [totalWorkouts |-> Len(ws),
     totalDuration |-> SumReduce(ws, "duration"),
     totalCalories |-> SumReduce(ws, "calories"),
     activeGoals |-> Len(SelectSeq(gs, LAMBDA g : g.status = "active")),
     completedGoals |-> Len(SelectSeq(gs, LAMBDA g : g.status = "completed")),
     streak |-> calculateStreak(ws, e)]

----------------------------------------------------------------------------
(* Validation and the workout form.  The values a form holds are a record  *)
(* with a key for every field that has a value; the value of a number      *)
(* input (register(..., { valueAsNumber: true })) is Num(n), or NaN while  *)
(* the input is blank.                                                     *)

RECURSIVE Repeat(_, _)
Repeat(str, n) ==
    IF n = 0 THEN ""
    ELSE IF n % 2 = 0 THEN LET half == Repeat(str, n \div 2) IN half \o half
    ELSE str \o Repeat(str, n - 1)

ExerciseTypes == {"cardio", "strength", "flexibility", "balance", "sports"}

IntensityLevels == {"low", "medium", "high"}

\* z.string().min(min).max(max)
ZStringOk(v, k, min, max) ==
    k \in DOMAIN v /\ Len(v[k]) >= min /\ Len(v[k]) <= max

\* z.enum(options)
ZEnumOk(v, k, options) == k \in DOMAIN v /\ v[k] \in options

\* z.number().positive().max(max): NaN is not a number for zod.
ZNumberOk(x, max) == x # NaN /\ x.num > 0 /\ x.num <= max * x.den

\* z.number().int()
ZIntOk(x) == x # NaN /\ x.num % x.den = 0

\* Mutant: the upper limit of duration is not checked.
durationOkNoMax(v) == "duration" \in DOMAIN v /\ v.duration # NaN /\ v.duration.num > 0

durationOk(v) == "duration" \in DOMAIN v /\ ZNumberOk(v.duration, 600)

caloriesOk(v) == "calories" \in DOMAIN v /\ ZNumberOk(v.calories, 10000)

\* The fields of workoutSchema whose rule the values break.
workoutSchemaErrors(v) ==
    {k \in {"name"} : ~ZStringOk(v, "name", 2, 50)}
    \cup {k \in {"exerciseType"} : ~ZEnumOk(v, "exerciseType", ExerciseTypes)}
    \cup {k \in {"duration"} : ~durationOk(v)}
    \cup {k \in {"calories"} : ~caloriesOk(v)}
    \cup {k \in {"sets"} \cap DOMAIN v : ~(ZIntOk(v.sets) /\ ZNumberOk(v.sets, 100))}
    \cup {k \in {"reps"} \cap DOMAIN v : ~(ZIntOk(v.reps) /\ ZNumberOk(v.reps, 1000))}
    \cup {k \in {"weight"} \cap DOMAIN v : ~ZNumberOk(v.weight, 1000)}
    \cup {k \in {"intensity"} : ~ZEnumOk(v, "intensity", IntensityLevels)}
    \cup {k \in {"notes"} \cap DOMAIN v : Len(v.notes) > 500}
    \cup {k \in {"date"} : "date" \notin DOMAIN v}

WorkoutNumberFields == {"duration", "calories", "sets", "reps", "weight"}

\* The WorkoutFormData the schema hands to onSubmit for values it accepts
\* (whole numbers only).
workoutSchemaData(v) ==
    [k \in DOMAIN v |-> IF k \in WorkoutNumberFields THEN v[k].num ELSE v[k]]

\* getTodayString(): the UTC calendar day.
getTodayString(e) == ToISODate(e.now)

\* defaultValues of the workout form, for a new workout (editing = <<>>) or
\* for the workout being edited (editing = <<workout>>).
WorkoutFormDefaults(editing, e) ==
    IF editing = <<>>
    THEN [name |-> "", notes |-> "", date |-> getTodayString(e)]
    ELSE LET initialData == editing[1]
         IN [k \in DOMAIN initialData \ {"id", "createdAt"} |->
                IF k \in WorkoutNumberFields THEN Num(initialData[k])
                ELSE initialData[k]]
            @@ [notes |-> ""]

\* The values the form holds at submission: what the user typed over the
\* defaults, the number inputs on display that are still blank reading NaN.
\* Sets, reps and weight are on display for a strength exercise only.
WorkoutFormValues(defaults, typed) ==
    LET v == Spread(defaults, typed)
        isStrengthExercise ==
            "exerciseType" \in DOMAIN v /\ v.exerciseType = "strength"
        mounted == {"duration", "calories"}
                   \cup (IF isStrengthExercise THEN {"sets", "reps", "weight"}
                         ELSE {})
    IN Spread([k \in mounted |-> NaN], v)

\* What the user types into the workout form.
WorkoutTyping ==
    { [name |-> "Evening Ride", exerciseType |-> "cardio", duration |-> Num(50),
       calories |-> Num(420), intensity |-> "low"],
      [name |-> "Squats", exerciseType |-> "strength", duration |-> Num(600),
       calories |-> Num(10000), sets |-> Num(3), reps |-> Num(10),
       weight |-> Num(40), intensity |-> "high", notes |-> "legs"],
      [name |-> "Push-ups", exerciseType |-> "strength", duration |-> Num(15),
       calories |-> Num(100), sets |-> Num(3), reps |-> Num(15),
       intensity |-> "medium"],
      [name |-> "A", exerciseType |-> "cardio", duration |-> Num(50),
       calories |-> Num(420), intensity |-> "low"],
      [name |-> Repeat("x", 51), exerciseType |-> "cardio",
       duration |-> Num(50), calories |-> Num(420), intensity |-> "low"],
      [name |-> "Nap", exerciseType |-> "balance", duration |-> Num(0),
       calories |-> Num(420), intensity |-> "low"],
      [name |-> "Ultra", exerciseType |-> "cardio", duration |-> Num(601),
       calories |-> Num(420), intensity |-> "high"],
      [name |-> "Walk", exerciseType |-> "cardio", duration |-> Num(50),
       calories |-> Num(0 - 5), intensity |-> "low"],
      [name |-> "Tour", exerciseType |-> "sports", duration |-> Num(50),
       calories |-> Num(10001), intensity |-> "high"],
      [name |-> "Stretch", exerciseType |-> "flexibility", duration |-> Num(20),
       calories |-> Num(60), intensity |-> "low", notes |-> Repeat("n", 501)],
      [name |-> "Stretch", exerciseType |-> "flexibility", duration |-> Num(20),
       calories |-> Num(60), intensity |-> "low", notes |-> Repeat("n", 500)],
      [name |-> "Blank duration", exerciseType |-> "cardio",
       calories |-> Num(420), duration |-> NaN, intensity |-> "low"],
      [date |-> Today - 1] }

----------------------------------------------------------------------------
(* The goal form and the Goals page controls *)

GoalTargetTypes ==
    {"workouts_count", "total_duration", "calories_burned", "weight_lifted"}

\* z.number().positive()
targetValueOk(v) ==
    "targetValue" \in DOMAIN v /\ v.targetValue # NaN /\ v.targetValue.num > 0

\* Mutant: an end date equal to the start date is accepted.
endDateAfterStartOrSame(v) ==
    /\ {"startDate", "endDate"} \subseteq DOMAIN v
    /\ ParseDate(v.endDate) >= ParseDate(v.startDate)

\* The refinement new Date(data.endDate) > new Date(data.startDate).
endDateAfterStart(v) ==
    /\ {"startDate", "endDate"} \subseteq DOMAIN v
    /\ ParseDate(v.endDate) > ParseDate(v.startDate)

\* The fields of goalSchema whose rule the values break.
goalSchemaErrors(v) ==
    {k \in {"title"} : ~ZStringOk(v, "title", 2, 100)}
    \cup {k \in {"description"} \cap DOMAIN v : Len(v.description) > 500}
    \cup {k \in {"targetType"} : ~ZEnumOk(v, "targetType", GoalTargetTypes)}
    \cup {k \in {"targetValue"} : ~targetValueOk(v)}
    \cup {k \in {"startDate"} : "startDate" \notin DOMAIN v}
    \cup {k \in {"endDate"} : "endDate" \notin DOMAIN v \/ ~endDateAfterStart(v)}

\* The GoalFormData the schema hands to onSubmit for values it accepts.
goalSchemaData(v) ==
    [k \in DOMAIN v |-> IF k = "targetValue" THEN v[k].num ELSE v[k]]

\* getDefaultEndDate(): 30 days from now.
getDefaultEndDate(e) == ToISODate(AddDays(e.now, 30))

\* defaultValues of the goal form, for a new goal (editing = <<>>) or for the
\* goal being edited (editing = <<goal>>).
GoalFormDefaults(editing, e) ==
    IF editing = <<>>
    THEN [title |-> "", description |-> "", startDate |-> getTodayString(e),
          endDate |-> getDefaultEndDate(e)]
    ELSE LET initialData == editing[1]
         IN [title |-> initialData.title,
             description |-> IF "description" \in DOMAIN initialData
                             THEN initialData.description ELSE "",
             targetType |-> initialData.targetType,
             targetValue |-> Num(initialData.targetValue),
             startDate |-> initialData.startDate,
             endDate |-> initialData.endDate]

\* The values the goal form holds at submission; the target value input
\* reads NaN while it is blank.
GoalFormValues(defaults, typed) ==
    Spread([targetValue |-> NaN], Spread(defaults, typed))

\* What the user types into the goal form.
GoalTyping ==
    { [title |-> "Run more", targetType |-> "total_duration",
       targetValue |-> Num(300)],
      [title |-> "One-day goal", targetType |-> "workouts_count",
       targetValue |-> Num(1), startDate |-> Today, endDate |-> Today + 1],
      [targetValue |-> Num(3)],
      [title |-> "No target", targetType |-> "workouts_count",
       targetValue |-> Num(0)],
      [title |-> "Negative", targetType |-> "calories_burned",
       targetValue |-> Num(0 - 5)],
      [title |-> "Blank target", targetType |-> "calories_burned",
       targetValue |-> NaN],
      [title |-> "Same day", targetType |-> "workouts_count",
       targetValue |-> Num(4), startDate |-> Today, endDate |-> Today],
      [title |-> "Backwards", targetType |-> "workouts_count",
       targetValue |-> Num(4), startDate |-> Today, endDate |-> Today - 7],
      [title |-> "G", targetType |-> "weight_lifted", targetValue |-> Num(50)] }

Digits == <<"0", "1", "2", "3", "4", "5", "6", "7", "8", "9">>

\* Number.prototype.toString for a whole number >= 0, as a sequence of
\* characters.
RECURSIVE numberToString(_)
numberToString(n) ==
    IF n < 10 THEN <<Digits[n + 1]>>
    ELSE numberToString(n \div 10) \o <<Digits[(n % 10) + 1]>>

DigitValue(c) == CHOOSE d \in 0..9 : Digits[d + 1] = c

IsDigit(c) == \E d \in 0..9 : Digits[d + 1] = c

\* The value of the longest prefix of digits of chars after acc, and
\* whether a digit was seen.
RECURSIVE ParseDigits(_, _, _)
ParseDigits(chars, acc, seen) ==
    IF chars = <<>> \/ ~IsDigit(Head(chars)) THEN [value |-> acc, seen |-> seen]
    ELSE ParseDigits(Tail(chars), acc * 10 + DigitValue(Head(chars)), TRUE)

\* parseFloat of a sequence of characters (sign and digits): the number
\* read, or NaN.
parseFloat(chars) ==
    LET negative == chars # <<>> /\ Head(chars) = "-"
        parsed == ParseDigits(IF negative THEN Tail(chars) ELSE chars, 0, FALSE)
    IN IF ~parsed.seen THEN NaN
       ELSE Num(IF negative THEN 0 - parsed.value ELSE parsed.value)

\* What the user leaves in the progress input, which opens holding the
\* goal's current value.
ProgressTyping(goal) ==
    { numberToString(goal.currentValue), <<>>, <<"-", "1">>, <<"0">>,
      numberToString(goal.targetValue), <<"6", "0", "0", "0">>, <<"-">> }

\* GoalCard: progress
cardProgress(goal) == MinHundred(PercentOf(goal.currentValue, goal.targetValue))

\* GoalCard: isActive
isActive(goal) == goal.status = "active"

\* Mutant: the update-progress button is shown for every goal.
showsUpdateProgressAlways(goal) == TRUE

\* GoalCard: {isActive && (<button onClick={onUpdateProgress} ...)}
showsUpdateProgress(goal) == isActive(goal)

\* GoalCard: {isActive && progress < 100 && (Complete, Cancel)}
showsCompleteCancel(goal) ==
    /\ isActive(goal)
    /\ cardProgress(goal) # NaN
    /\ cardProgress(goal).num < 100 * cardProgress(goal).den

\* GoalCard: {(goal.status === 'completed' || goal.status === 'cancelled')
\* && (Reactivate)}
showsReactivate(goal) == goal.status = "completed" \/ goal.status = "cancelled"

----------------------------------------------------------------------------
(* Theme store *)

getSystemTheme(matches) == IF matches THEN "dark" ELSE "light"

resolveTheme(theme, matches) ==
    IF theme = "system" THEN getSystemTheme(matches) ELSE theme

\* Initial state of useThemeStore.
initialThemeState(matches) ==
    [theme |-> "system", resolvedTheme |-> getSystemTheme(matches)]

setTheme(state, theme, matches) ==
    Spread(state, [theme |-> theme,
                   resolvedTheme |-> resolveTheme(theme, matches)])

toggleTheme(state) ==
    LET current == state.resolvedTheme
        newTheme == IF current = "dark" THEN "light" ELSE "dark"
    IN Spread(state, [theme |-> newTheme, resolvedTheme |-> newTheme])

\* The callback onRehydrateStorage returns, applied to the rehydrated state.
onRehydrateStorage(state, matches) ==
    Spread(state, [resolvedTheme |-> resolveTheme(state.theme, matches)])

\* Mutant: the listener does not look at the theme setting.
systemThemeListenerAlways(state, matches) ==
    Spread(state, [resolvedTheme |-> IF matches THEN "dark" ELSE "light"])

\* The 'change' listener on the prefers-color-scheme media query.
systemThemeListener(state, matches) ==
    IF state.theme = "system"
    THEN Spread(state, [resolvedTheme |-> IF matches THEN "dark" ELSE "light"])
    ELSE state

\* The theme store after a page load: created with its initial state; when
\* the stored item can be read it is merged and the callback runs on the
\* result, when it cannot the callback gets no state.
rehydrateTheme(kind, stored, matches) ==
    IF kind = "stored"
    THEN onRehydrateStorage(Spread(initialThemeState(matches), stored), matches)
    ELSE IF kind = "missing"
         THEN onRehydrateStorage(initialThemeState(matches), matches)
    ELSE initialThemeState(matches)

ThemeStorageKinds == {"stored", "missing", "unparseable"}

Themes == {"light", "dark", "system"}

----------------------------------------------------------------------------
(* Persistence.  Both stores are wrapped in zustand's persist middleware   *)
(* with the options { name, version: 1 }: every set writes                 *)
(* JSON.stringify({ state, version }) to localStorage under the store's    *)
(* name, and a page load creates the store with its initial state and then *)
(* merges what the stored item holds.                                      *)

\* version: 1
StorageVersion == 1

\* The fields of Workout and Goal that are numbers; the others are strings.
NumberFields ==
    {"duration", "calories", "sets", "reps", "weight", "targetValue",
     "currentValue"}

\* JSON.stringify of a record: a member for every key that has a value.
StringifyRecord(r) ==
    [k \in DOMAIN r |->
        IF k \in NumberFields THEN [json |-> "number", text |-> r[k]]
        ELSE [json |-> "string", text |-> r[k]]]

\* JSON.stringify of error: string | null.
StringifyError(err) ==
    IF err = Null THEN [json |-> "null"] ELSE [json |-> "string", text |-> err]

\* JSON.parse of a member.
ParseMember(j) == IF j.json = "null" THEN Null ELSE j.text

ParseRecord(o) == [k \in DOMAIN o |-> ParseMember(o[k])]

\* The item persist writes for a store whose collection is stored under key.
StoredItem(key, coll, err, version) ==
    [item |-> "text", parses |-> TRUE, version |-> version,
     state |-> [k \in {key, "error"} |->
                  IF k = key THEN [i \in 1..Len(coll) |-> StringifyRecord(coll[i])]
                  ELSE StringifyError(err)]]

\* What localStorage can hold under a store's name when the page loads: the
\* item the last set wrote, nothing, text that is not JSON, or an item
\* written under another version.
StorageItem(kind, key, coll, err) ==
    IF kind = "stored" THEN StoredItem(key, coll, err, StorageVersion)
    ELSE IF kind = "otherVersion"
         THEN StoredItem(key, coll, err, StorageVersion - 1)
    ELSE IF kind = "unparseable" THEN [item |-> "text", parses |-> FALSE]
    ELSE [item |-> "missing"]

StorageKinds == {"stored", "missing", "unparseable", "otherVersion"}

\* Mutant: the initial state wins the merge.
hydrateInitialWins(initial, key, item) ==
    IF item.item = "missing" THEN initial
    ELSE IF ~item.parses THEN initial
    ELSE IF item.version # StorageVersion THEN initial
    ELSE Spread([k \in {key, "error"} |->
                    IF k = key
                    THEN [i \in 1..Len(item.state[key]) |->
                             ParseRecord(item.state[key][i])]
                    ELSE ParseMember(item.state.error)],
                initial)

\* Mutant: text that cannot be parsed puts the store in an error state.
hydrateRaisesError(initial, key, item) ==
    IF item.item = "missing" THEN initial
    ELSE IF ~item.parses THEN Spread(initial, [error |-> "SyntaxError"])
    ELSE IF item.version # StorageVersion THEN initial
    ELSE Spread(initial,
                [k \in {key, "error"} |->
                    IF k = key
                    THEN [i \in 1..Len(item.state[key]) |->
                             ParseRecord(item.state[key][i])]
                    ELSE ParseMember(item.state.error)])

\* The state of a store after persist has rehydrated it: the initial state
\* when there is no item, when JSON.parse throws (persist catches it) and
\* when the version differs (no migrate option is given); otherwise
\* { ...initial, ...persisted }.
hydrate(initial, key, item) ==
    IF item.item = "missing" THEN initial
    ELSE IF ~item.parses THEN initial
    ELSE IF item.version # StorageVersion THEN initial
    ELSE Spread(initial,
                [k \in {key, "error"} |->
                    IF k = key
                    THEN [i \in 1..Len(item.state[key]) |->
                             ParseRecord(item.state[key][i])]
                    ELSE ParseMember(item.state.error)])

\* Initial state of useWorkoutStore.
initialWorkoutState == [workouts |-> sampleWorkouts, error |-> Null]

\* Initial state of useGoalStore.
initialGoalState == [goals |-> sampleGoals, error |-> Null]

----------------------------------------------------------------------------
(* The state machine *)

\* The call log: which store function ran, with which arguments, and which
\* functions it called on the way.
Call(op, id, data, value, calls) ==
    /\ last' = [op |-> op, id |-> id, data |-> data, value |-> value,
                calls |-> calls]
    /\ preWorkouts' = workouts
    /\ preGoals' = goals
    /\ steps' = steps + 1
    /\ env' = env
    /\ UNCHANGED <<themeStore, prefersDark>>

\* A first run starts from the sample data; a later run starts from what the
\* persist middleware stored, which may be empty collections.
Init ==
    /\ \/ workouts = sampleWorkouts /\ goals = sampleGoals
       \/ workouts = <<>> /\ goals = <<>>
    /\ workoutError = Null
    /\ goalError = Null
    /\ nextId = 9
    /\ steps = 0
    /\ last = [op |-> "init", id |-> NonExistentId, data |-> <<>>, value |-> 0,
               calls |-> {}]
    /\ preWorkouts = workouts
    /\ preGoals = goals
    /\ env = [now |-> Today * 24 + 12, tz |-> 0]
    /\ prefersDark = FALSE
    /\ themeStore = initialThemeState(prefersDark)

AddWorkoutAction(data) ==
    /\ steps < MaxOps
    /\ workouts' = addWorkout(workouts, data)
    /\ nextId' = nextId + 1
    /\ Call("addWorkout", NonExistentId, data, 0, {"uuidv4", "set"})
    /\ UNCHANGED <<workoutError, goals, goalError>>

UpdateWorkoutAction(id, data) ==
    /\ steps < MaxOps
    /\ workouts' = updateWorkout(workouts, id, data)
    /\ Call("updateWorkout", id, data, 0, {"set"})
    /\ UNCHANGED <<workoutError, goals, goalError, nextId>>

DeleteWorkoutAction(id) ==
    /\ steps < MaxOps
    /\ workouts' = deleteWorkout(workouts, id)
    /\ Call("deleteWorkout", id, <<>>, 0, {"set"})
    /\ UNCHANGED <<workoutError, goals, goalError, nextId>>

ClearWorkoutErrorAction ==
    /\ steps < MaxOps
    /\ workoutError' = Null
    /\ Call("clearWorkoutError", NonExistentId, <<>>, 0, {"set"})
    /\ UNCHANGED <<workouts, goals, goalError, nextId>>

AddGoalAction(data) ==
    /\ steps < MaxOps
    /\ goals' = addGoal(goals, data)
    /\ nextId' = nextId + 1
    /\ Call("addGoal", NonExistentId, data, 0, {"uuidv4", "set"})
    /\ UNCHANGED <<workouts, workoutError, goalError>>

UpdateGoalAction(id, data) ==
    /\ steps < MaxOps
    /\ goals' = updateGoal(goals, id, data)
    /\ Call("updateGoal", id, data, 0, {"set"})
    /\ UNCHANGED <<workouts, workoutError, goalError, nextId>>

\* Mutant: deleting a goal also drops the oldest workout.
DeleteGoalActionDropsWorkout(id) ==
    /\ steps < MaxOps
    /\ goals' = deleteGoal(goals, id)
    /\ workouts' = SubSeq(workouts, 1, Len(workouts) - 1)
    /\ Call("deleteGoal", id, <<>>, 0, {"set"})
    /\ UNCHANGED <<workoutError, goalError, nextId>>

DeleteGoalAction(id) ==
    /\ steps < MaxOps
    /\ goals' = deleteGoal(goals, id)
    /\ Call("deleteGoal", id, <<>>, 0, {"set"})
    /\ UNCHANGED <<workouts, workoutError, goalError, nextId>>

UpdateProgressAction(id, value) ==
    /\ steps < MaxOps
    /\ goals' = updateProgress(goals, id, value)
    /\ Call("updateProgress", id, <<>>, value, {"set"})
    /\ UNCHANGED <<workouts, workoutError, goalError, nextId>>

CompleteGoalAction(id) ==
    /\ steps < MaxOps
    /\ goals' = completeGoal(goals, id)
    /\ Call("completeGoal", id, <<>>, 0, {"set"})
    /\ UNCHANGED <<workouts, workoutError, goalError, nextId>>

CancelGoalAction(id) ==
    /\ steps < MaxOps
    /\ goals' = cancelGoal(goals, id)
    /\ Call("cancelGoal", id, <<>>, 0, {"set"})
    /\ UNCHANGED <<workouts, workoutError, goalError, nextId>>

ReactivateGoalAction(id) ==
    /\ steps < MaxOps
    /\ goals' = reactivateGoal(goals, id)
    /\ Call("reactivateGoal", id, <<>>, 0, {"set"})
    /\ UNCHANGED <<workouts, workoutError, goalError, nextId>>

ClearGoalErrorAction ==
    /\ steps < MaxOps
    /\ goalError' = Null
    /\ Call("clearGoalError", NonExistentId, <<>>, 0, {"set"})
    /\ UNCHANGED <<workouts, workoutError, goals, nextId>>

\* A render of the Dashboard page: its useMemo computations.
DashboardAction ==
    /\ steps < MaxOps
    /\ Call("Dashboard", NonExistentId,
            [stats |-> dashboardStats(workouts, goals, env),
             weeklySummary |-> weeklySummary(workouts, env),
             exerciseDistribution |-> exerciseDistribution(workouts)],
            0, {"getActiveGoals", "calculateStreak", "getDayNames"})
    /\ UNCHANGED <<workouts, workoutError, goals, goalError, nextId>>

\* A page load: both stores are created anew and rehydrated from what
\* localStorage holds under their names.
ReloadAction(workoutsKind, goalsKind) ==
    LET workoutState ==
            hydrate(initialWorkoutState, "workouts",
                    StorageItem(workoutsKind, "workouts", workouts, workoutError))
        goalState ==
            hydrate(initialGoalState, "goals",
                    StorageItem(goalsKind, "goals", goals, goalError))
    IN /\ steps < MaxOps
       /\ workouts' = workoutState.workouts
       /\ workoutError' = workoutState.error
       /\ goals' = goalState.goals
       /\ goalError' = goalState.error
       /\ Call("reload", NonExistentId,
               [workouts |-> workoutsKind, goals |-> goalsKind], 0, {"persist"})
       /\ UNCHANGED nextId

Next ==
    \/ \E data \in WorkoutInputs : AddWorkoutAction(data)
    \/ \E id \in CandidateIds(workouts, preWorkouts), data \in WorkoutPatches :
           UpdateWorkoutAction(id, data)
    \/ \E id \in CandidateIds(workouts, preWorkouts) : DeleteWorkoutAction(id)
    \/ ClearWorkoutErrorAction
    \/ \E data \in GoalInputs : AddGoalAction(data)
    \/ \E id \in CandidateIds(goals, preGoals), data \in GoalPatches :
           UpdateGoalAction(id, data)
    \/ \E id \in CandidateIds(goals, preGoals) : DeleteGoalAction(id)
    \/ \E id \in CandidateIds(goals, preGoals), value \in ProgressValues :
           UpdateProgressAction(id, value)
    \/ \E id \in CandidateIds(goals, preGoals) : CompleteGoalAction(id)
    \/ \E id \in CandidateIds(goals, preGoals) : CancelGoalAction(id)
    \/ \E id \in CandidateIds(goals, preGoals) : ReactivateGoalAction(id)
    \/ ClearGoalErrorAction
    \/ DashboardAction
    \/ \E workoutsKind \in StorageKinds, goalsKind \in StorageKinds :
           ReloadAction(workoutsKind, goalsKind)

Spec == Init /\ [][Next]_vars

\* The Dashboard over any small workout collection, in any of the browsers.
InitStats ==
    /\ \E n \in 0..MaxStatWorkouts : workouts \in StatCollections(n)
    /\ goals = <<>>
    /\ workoutError = Null
    /\ goalError = Null
    /\ nextId = MaxStatWorkouts + 1
    /\ steps = 0
    /\ last = [op |-> "init", id |-> NonExistentId, data |-> <<>>, value |-> 0,
               calls |-> {}]
    /\ preWorkouts = workouts
    /\ preGoals = goals
    /\ env \in StatEnvs
    /\ prefersDark = FALSE
    /\ themeStore = initialThemeState(prefersDark)

NextStats == DashboardAction

SpecStats == InitStats /\ [][NextStats]_vars

\* A call of the theme store, an event or a load: the log entry, with the
\* theme state it started from.
ThemeCall(op, data) ==
    /\ last' = [op |-> op, id |-> NonExistentId,
                data |-> Spread(data, [before |-> themeStore]), value |-> 0,
                calls |-> {}]
    /\ steps' = steps + 1
    /\ UNCHANGED <<workouts, workoutError, goals, goalError, nextId,
                   preWorkouts, preGoals, env>>

SetThemeAction(theme) ==
    /\ steps < MaxThemeOps
    /\ themeStore' = setTheme(themeStore, theme, prefersDark)
    /\ ThemeCall("setTheme", [theme |-> theme])
    /\ UNCHANGED prefersDark

ToggleThemeAction ==
    /\ steps < MaxThemeOps
    /\ themeStore' = toggleTheme(themeStore)
    /\ ThemeCall("toggleTheme", [theme |-> themeStore.theme])
    /\ UNCHANGED prefersDark

\* The operating system switches its colour scheme and the media query's
\* change event fires.
SystemThemeChangeAction ==
    /\ steps < MaxThemeOps
    /\ prefersDark' = ~prefersDark
    /\ themeStore' = systemThemeListener(themeStore, prefersDark')
    /\ ThemeCall("systemThemeChange", [matches |-> prefersDark'])

\* A page load, possibly under another system colour scheme.
ThemeReloadAction(kind, matches) ==
    /\ steps < MaxThemeOps
    /\ prefersDark' = matches
    /\ themeStore' = rehydrateTheme(kind, themeStore, matches)
    /\ ThemeCall("themeReload", [kind |-> kind, matches |-> matches])

InitTheme ==
    /\ workouts = sampleWorkouts
    /\ goals = sampleGoals
    /\ workoutError = Null
    /\ goalError = Null
    /\ nextId = 9
    /\ steps = 0
    /\ last = [op |-> "init", id |-> NonExistentId, data |-> <<>>, value |-> 0,
               calls |-> {}]
    /\ preWorkouts = workouts
    /\ preGoals = goals
    /\ env = [now |-> Today * 24 + 12, tz |-> 0]
    /\ prefersDark \in BOOLEAN
    /\ themeStore = initialThemeState(prefersDark)

NextTheme ==
    \/ \E theme \in Themes : SetThemeAction(theme)
    \/ ToggleThemeAction
    \/ SystemThemeChangeAction
    \/ \E kind \in ThemeStorageKinds, matches \in BOOLEAN :
           ThemeReloadAction(kind, matches)

SpecTheme == InitTheme /\ [][NextTheme]_vars

\* The Workouts page: the form's handleSubmit(onSubmit) runs the schema and
\* calls the page's handleSubmit only when no field fails; that adds the
\* workout or updates the one being edited.
WorkoutFormSubmitAction(editing, typed) ==
    LET values == WorkoutFormValues(WorkoutFormDefaults(editing, env), typed)
        errors == workoutSchemaErrors(values)
        data == workoutSchemaData(values)
    IN /\ steps < MaxOps
       /\ IF errors # {}
          THEN /\ UNCHANGED <<workouts, nextId>>
               /\ Call("submitWorkoutForm", NonExistentId,
                       [values |-> values, errors |-> errors], 0, {})
          ELSE IF editing # <<>>
          THEN /\ workouts' = updateWorkout(workouts, editing[1].id, data)
               /\ UNCHANGED nextId
               /\ Call("submitWorkoutForm", editing[1].id,
                       [values |-> values, errors |-> errors], 0,
                       {"updateWorkout"})
          ELSE /\ workouts' = addWorkout(workouts, data)
               /\ nextId' = nextId + 1
               /\ Call("submitWorkoutForm", NonExistentId,
                       [values |-> values, errors |-> errors], 0,
                       {"addWorkout"})
       /\ UNCHANGED <<workoutError, goals, goalError>>

\* The Workouts page: the delete button of a workout, confirmed.
WorkoutConfirmDeleteAction(workoutToDelete) ==
    /\ steps < MaxOps
    /\ workouts' = deleteWorkout(workouts, workoutToDelete.id)
    /\ Call("confirmDeleteWorkout", workoutToDelete.id, <<>>, 0,
            {"deleteWorkout"})
    /\ UNCHANGED <<workoutError, goals, goalError, nextId>>

\* A first run: the stores hold the sample data.
InitSampleData ==
    /\ workouts = sampleWorkouts
    /\ goals = sampleGoals
    /\ workoutError = Null
    /\ goalError = Null
    /\ nextId = 9
    /\ steps = 0
    /\ last = [op |-> "init", id |-> NonExistentId, data |-> <<>>, value |-> 0,
               calls |-> {}]
    /\ preWorkouts = workouts
    /\ preGoals = goals
    /\ env = [now |-> Today * 24 + 12, tz |-> 0]
    /\ prefersDark = FALSE
    /\ themeStore = initialThemeState(prefersDark)

\* The workouts on display, as the form's initialData.
Displayed(coll) == {<<coll[i]>> : i \in 1..Len(coll)}

NextWorkoutsPage ==
    \/ \E editing \in {<<>>} \cup Displayed(workouts), typed \in WorkoutTyping :
           WorkoutFormSubmitAction(editing, typed)
    \/ \E i \in 1..Len(workouts) : WorkoutConfirmDeleteAction(workouts[i])

SpecWorkoutsPage == InitSampleData /\ [][NextWorkoutsPage]_vars

\* The Goals page: the form's handleSubmit(onSubmit) runs the schema and
\* calls the page's handleSubmit only when no field fails.
GoalFormSubmitAction(editing, typed) ==
    LET values == GoalFormValues(GoalFormDefaults(editing, env), typed)
        errors == goalSchemaErrors(values)
        data == goalSchemaData(values)
    IN /\ steps < MaxOps
       /\ IF errors # {}
          THEN /\ UNCHANGED <<goals, nextId>>
               /\ Call("submitGoalForm", NonExistentId,
                       [values |-> values, errors |-> errors], 0, {})
          ELSE IF editing # <<>>
          THEN /\ goals' = updateGoal(goals, editing[1].id, data)
               /\ UNCHANGED nextId
               /\ Call("submitGoalForm", editing[1].id,
                       [values |-> values, errors |-> errors], 0,
                       {"updateGoal"})
          ELSE /\ goals' = addGoal(goals, data)
               /\ nextId' = nextId + 1
               /\ Call("submitGoalForm", NonExistentId,
                       [values |-> values, errors |-> errors], 0, {"addGoal"})
       /\ UNCHANGED <<workouts, workoutError, goalError>>

\* The Goals page: the delete button of a goal, confirmed.
GoalConfirmDeleteAction(goalToDelete) ==
    /\ steps < MaxOps
    /\ goals' = deleteGoal(goals, goalToDelete.id)
    /\ Call("confirmDeleteGoal", goalToDelete.id, <<>>, 0, {"deleteGoal"})
    /\ UNCHANGED <<workouts, workoutError, goalError, nextId>>

\* The Goals page: the update-progress button of a card, a text left in the
\* modal's input, and its Update button (handleUpdateProgress).
GoalUpdateProgressAction(progressModalGoal, newProgressValue) ==
    LET value == parseFloat(newProgressValue)
        called == /\ newProgressValue # <<>>
                  /\ value # NaN
                  /\ value.num >= 0
    IN /\ steps < MaxOps
       /\ showsUpdateProgress(progressModalGoal)
       /\ IF called
          THEN /\ goals' = updateProgress(goals, progressModalGoal.id, value.num)
               /\ Call("handleUpdateProgress", progressModalGoal.id,
                       newProgressValue, value.num, {"updateProgress"})
          ELSE /\ goals' = goals
               /\ Call("handleUpdateProgress", progressModalGoal.id,
                       newProgressValue, 0, {})
       /\ UNCHANGED <<workouts, workoutError, goalError, nextId>>

\* The Goals page: the Complete button of a card.
GoalCompleteAction(goal) ==
    /\ steps < MaxOps
    /\ showsCompleteCancel(goal)
    /\ goals' = completeGoal(goals, goal.id)
    /\ Call("onComplete", goal.id, <<>>, 0, {"completeGoal"})
    /\ UNCHANGED <<workouts, workoutError, goalError, nextId>>

\* The Goals page: the Cancel button of a card.
GoalCancelAction(goal) ==
    /\ steps < MaxOps
    /\ showsCompleteCancel(goal)
    /\ goals' = cancelGoal(goals, goal.id)
    /\ Call("onCancel", goal.id, <<>>, 0, {"cancelGoal"})
    /\ UNCHANGED <<workouts, workoutError, goalError, nextId>>

\* The Goals page: the Reactivate button of a card.
GoalReactivateAction(goal) ==
    /\ steps < MaxOps
    /\ showsReactivate(goal)
    /\ goals' = reactivateGoal(goals, goal.id)
    /\ Call("onReactivate", goal.id, <<>>, 0, {"reactivateGoal"})
    /\ UNCHANGED <<workouts, workoutError, goalError, nextId>>

NextGoalsPage ==
    \/ \E editing \in {<<>>} \cup Displayed(goals), typed \in GoalTyping :
           GoalFormSubmitAction(editing, typed)
    \/ \E i \in 1..Len(goals) : GoalConfirmDeleteAction(goals[i])
    \/ \E i \in 1..Len(goals) :
           \E newProgressValue \in ProgressTyping(goals[i]) :
               GoalUpdateProgressAction(goals[i], newProgressValue)
    \/ \E i \in 1..Len(goals) : GoalCompleteAction(goals[i])
    \/ \E i \in 1..Len(goals) : GoalCancelAction(goals[i])
    \/ \E i \in 1..Len(goals) : GoalReactivateAction(goals[i])

SpecGoalsPage == InitSampleData /\ [][NextGoalsPage]_vars

\* A second session: the first one added the goal "Five workouts" to the
\* sample data (addGoal) and completed it (completeGoal), and the persist
\* middleware stored that state.
InitSecondSession ==
    /\ workouts = sampleWorkouts
    /\ goals = completeGoal(
           <<[title |-> "Five workouts", targetType |-> "workouts_count",
              targetValue |-> 5, startDate |-> Today, endDate |-> Today + 30,
              id |-> 9, currentValue |-> 0, status |-> "active",
              createdAt |-> Today]>> \o sampleGoals, 9)
    /\ workoutError = Null
    /\ goalError = Null
    /\ nextId = 10
    /\ steps = 0
    /\ last = [op |-> "init", id |-> NonExistentId, data |-> <<>>, value |-> 0,
               calls |-> {}]
    /\ preWorkouts = workouts
    /\ preGoals = goals
    /\ env = [now |-> Today * 24 + 12, tz |-> 0]
    /\ prefersDark = FALSE
    /\ themeStore = initialThemeState(prefersDark)

SpecSecondSession == InitSecondSession /\ [][Next]_vars

----------------------------------------------------------------------------
(* Vocabulary of the properties *)

WorkoutMutations == {"addWorkout", "updateWorkout", "deleteWorkout"}

DerivedTargetTypes == {"workouts_count", "total_duration", "calories_burned"}

\* The sum of a numeric field over a collection, by index set.
RECURSIVE SumAt(_, _, _)
SumAt(coll, field, idx) ==
    IF idx = {} THEN 0
    ELSE LET i == CHOOSE j \in idx : TRUE
         IN coll[i][field] + SumAt(coll, field, idx \ {i})

SumField(coll, field) == SumAt(coll, field, 1..Len(coll))

\* The aggregate a goal of the given target type tracks.
Aggregate(ws, targetType) ==
    CASE targetType = "workouts_count" -> Len(ws)
      [] targetType = "total_duration" -> SumField(ws, "duration")
      [] targetType = "calories_burned" -> SumField(ws, "calories")

\* The record carrying id in a collection that holds one.
Rec(coll, id) == coll[CHOOSE i \in 1..Len(coll) : coll[i].id = id]

\* coll with its i-th element removed.
Without(coll, i) == SubSeq(coll, 1, i - 1) \o SubSeq(coll, i + 1, Len(coll))

----------------------------------------------------------------------------
(* Properties *)

\* C1: after addWorkout, updateWorkout or deleteWorkout has returned, every
\* active goal with a derived target type has currentValue equal to the
\* matching aggregate over the current workouts.
C1_GoalsSyncedAfterWorkoutMutation ==
    last.op \in WorkoutMutations =>
        \A i \in 1..Len(goals) :
            (goals[i].status = "active"
                /\ goals[i].targetType \in DerivedTargetTypes)
            => goals[i].currentValue = Aggregate(workouts, goals[i].targetType)

\* C2: every addWorkout call invokes syncGoalsWithWorkouts before it returns.
C2_AddWorkoutCallsSync ==
    last.op = "addWorkout" => "syncGoalsWithWorkouts" \in last.calls

\* C3: addWorkout grows the collection by exactly one record whose id no
\* earlier record carries, and ids are pairwise distinct in every state.
C3_AddWorkoutFreshId ==
    /\ last.op = "addWorkout" =>
          /\ Len(workouts) = Len(preWorkouts) + 1
          /\ Cardinality(Ids(workouts) \ Ids(preWorkouts)) = 1
          /\ Ids(preWorkouts) \subseteq Ids(workouts)
    /\ \A i, j \in 1..Len(workouts) :
          i # j => workouts[i].id # workouts[j].id

C3_Witness ==
    /\ last.op = "addWorkout"
    /\ steps >= 2
    /\ Len(preWorkouts) >= 1

\* C4: updateWorkout on an existing id leaves every field that was not
\* supplied (id and createdAt among them), every other record, the size and
\* the order of the collection unchanged.
C4_UpdateWorkoutFrame ==
    (last.op = "updateWorkout" /\ last.id \in Ids(preWorkouts)) =>
        /\ Len(workouts) = Len(preWorkouts)
        /\ \A i \in 1..Len(preWorkouts) :
              IF preWorkouts[i].id # last.id
              THEN workouts[i] = preWorkouts[i]
              ELSE /\ DOMAIN workouts[i]
                        = DOMAIN preWorkouts[i] \cup DOMAIN last.data
                   /\ \A k \in DOMAIN preWorkouts[i] \ DOMAIN last.data :
                          workouts[i][k] = preWorkouts[i][k]
                   /\ workouts[i].id = last.id
                   /\ workouts[i].createdAt = preWorkouts[i].createdAt

C4_Witness ==
    /\ last.op = "updateWorkout"
    /\ last.id \in Ids(preWorkouts)
    /\ Len(preWorkouts) >= 2
    /\ workouts # preWorkouts

\* C5: deleteWorkout(id) leaves no record with that id, so getWorkoutById(id)
\* finds nothing; the size drops by one when the id was present and is
\* unchanged otherwise; the other records are unchanged and keep their order.
C5_DeleteWorkout ==
    last.op = "deleteWorkout" =>
        /\ last.id \notin Ids(workouts)
        /\ getWorkoutById(workouts, last.id) = Undefined
        /\ IF last.id \in Ids(preWorkouts)
           THEN /\ Len(workouts) = Len(preWorkouts) - 1
                /\ \E i \in 1..Len(preWorkouts) :
                      /\ preWorkouts[i].id = last.id
                      /\ workouts = Without(preWorkouts, i)
           ELSE workouts = preWorkouts

C5_Witness ==
    /\ last.op = "deleteWorkout"
    /\ last.id \in Ids(preWorkouts)
    /\ Len(workouts) >= 2

\* C6: updateWorkout and updateGoal with an id that matches no record leave
\* the collection as it was and set no error.
C6_UpdateUnknownIdNoOp ==
    /\ (last.op = "updateWorkout" /\ last.id \notin Ids(preWorkouts)) =>
          workouts = preWorkouts /\ workoutError = Null
    /\ (last.op = "updateGoal" /\ last.id \notin Ids(preGoals)) =>
          goals = preGoals /\ goalError = Null

C6_Witness ==
    /\ last.op = "updateGoal"
    /\ last.id \notin Ids(preGoals)
    /\ Len(preGoals) >= 1

\* C7: getTotalStats returns the number of records, the sum of the durations
\* and the sum of the calories, and zeros for the empty collection, whatever
\* calls produced the collection.
C7_TotalStats ==
    /\ getTotalStats(workouts) =
          [duration |-> SumField(workouts, "duration"),
           calories |-> SumField(workouts, "calories"),
           count |-> Len(workouts)]
    /\ workouts = <<>> =>
          getTotalStats(workouts) = [duration |-> 0, calories |-> 0, count |-> 0]

C7_Witness ==
    /\ last.op = "addWorkout"
    /\ Len(workouts) = 2
    /\ getTotalStats(workouts) = [duration |-> 75, calories |-> 550, count |-> 2]

\* C8 as claimed: updateProgress stores max(0, value); the status is completed
\* when value >= targetValue and active when value < targetValue.
C8_Original ==
    (last.op = "updateProgress" /\ last.id \in Ids(preGoals)) =>
        LET before == Rec(preGoals, last.id)
            after == Rec(goals, last.id)
        IN /\ after.currentValue = Max(0, last.value)
           /\ last.value >= before.targetValue => after.status = "completed"
           /\ last.value < before.targetValue => after.status = "active"

\* C8 as amended: updateProgress stores max(0, value); the status is completed
\* when value >= targetValue and is left as it was when value < targetValue,
\* so an active goal stays active.
C8_UpdateProgress ==
    (last.op = "updateProgress" /\ last.id \in Ids(preGoals)) =>
        LET before == Rec(preGoals, last.id)
            after == Rec(goals, last.id)
        IN /\ after.currentValue = Max(0, last.value)
           /\ last.value >= before.targetValue => after.status = "completed"
           /\ last.value < before.targetValue => after.status = before.status

C8_Witness ==
    /\ last.op = "updateProgress"
    /\ last.id \in Ids(preGoals)
    /\ last.value < Rec(preGoals, last.id).targetValue
    /\ Rec(preGoals, last.id).status = "completed"
    /\ Rec(goals, last.id).status = "completed"

\* C9: updateProgress on a cancelled goal leaves it cancelled, for every
\* value.
C9_CancelledStaysCancelled ==
    (last.op = "updateProgress" /\ last.id \in Ids(preGoals)) =>
        (Rec(preGoals, last.id).status = "cancelled"
            => Rec(goals, last.id).status = "cancelled")

\* C10: no goal-store call takes a goal from cancelled to completed or from
\* completed to cancelled.
C10_StatusTransitions ==
    \A id \in Ids(preGoals) \cap Ids(goals) :
        LET from == Rec(preGoals, id).status
            to == Rec(goals, id).status
        IN /\ ~(from = "cancelled" /\ to = "completed")
           /\ ~(from = "completed" /\ to = "cancelled")

C12_AddGoal ==
    last.op = "addGoal" =>
        /\ Len(goals) = Len(preGoals) + 1
        /\ Cardinality(Ids(goals) \ Ids(preGoals)) = 1
        /\ \A id \in Ids(goals) \ Ids(preGoals) :
              LET g == Rec(goals, id)
              IN /\ g.currentValue = 0
                 /\ g.status = "active"
                 /\ \A k \in DOMAIN last.data : g[k] = last.data[k]
                 /\ DOMAIN g = DOMAIN last.data
                        \cup {"id", "currentValue", "status", "createdAt"}
        /\ \A i \in 1..Len(preGoals) :
              \E j \in 1..Len(goals) : goals[j] = preGoals[i]

C12_Witness ==
    /\ last.op = "addGoal"
    /\ Len(preGoals) >= 3
    /\ steps >= 2

\* C13: completeGoal on an existing goal sets status completed and
\* currentValue to targetValue whatever they were before (a currentValue
\* above the target included), and changes no other goal.
C13_CompleteGoal ==
    (last.op = "completeGoal" /\ last.id \in Ids(preGoals)) =>
        /\ Len(goals) = Len(preGoals)
        /\ \A i \in 1..Len(preGoals) :
              IF preGoals[i].id # last.id
              THEN goals[i] = preGoals[i]
              ELSE /\ goals[i].status = "completed"
                   /\ goals[i].currentValue = preGoals[i].targetValue
                   /\ goals[i].targetValue = preGoals[i].targetValue

C13_Witness ==
    /\ last.op = "completeGoal"
    /\ last.id \in Ids(preGoals)
    /\ Rec(preGoals, last.id).currentValue > Rec(preGoals, last.id).targetValue
    /\ Len(preGoals) >= 2

\* C14: cancelGoal and reactivateGoal set the status of the matching goal (to
\* cancelled, to active) whatever it was, and change no other field of that
\* goal and no other goal.
C14_CancelReactivateFrame ==
    (last.op \in {"cancelGoal", "reactivateGoal"} /\ last.id \in Ids(preGoals)) =>
        /\ Len(goals) = Len(preGoals)
        /\ \A i \in 1..Len(preGoals) :
              IF preGoals[i].id # last.id
              THEN goals[i] = preGoals[i]
              ELSE /\ goals[i].status =
                        (IF last.op = "cancelGoal" THEN "cancelled" ELSE "active")
                   /\ DOMAIN goals[i] = DOMAIN preGoals[i]
                   /\ \A k \in DOMAIN preGoals[i] \ {"status"} :
                          goals[i][k] = preGoals[i][k]

C14_Witness ==
    /\ last.op = "reactivateGoal"
    /\ last.id \in Ids(preGoals)
    /\ Rec(preGoals, last.id).status = "completed"
    /\ Rec(goals, last.id).currentValue > 0
    /\ Len(preGoals) >= 2

LocalToday(e) == (e.now + e.tz) \div 24

DateSet(ws) == {ws[i].date : i \in 1..Len(ws)}

MaxOf(S) == CHOOSE m \in S : \A x \in S : x <= m

\* The number of consecutive days of D that end with day d.
RECURSIVE RunEndingAt(_, _)
RunEndingAt(D, d) == IF d \in D THEN 1 + RunEndingAt(D, d - 1) ELSE 0

\* The Sunday on or before day d.
SundayOnOrBefore(d) == d - ((d + 4) % 7)

\* C15: once a completed goal with a derived target type and currentValue
\* equal to targetValue has been reactivated, the next workout mutation
\* leaves it completed again, provided the aggregate still reaches the
\* target.
C15_RecompletedByNextMutation ==
    last.op \in WorkoutMutations =>
        \A id \in Ids(preGoals) \cap Ids(goals) :
            LET before == Rec(preGoals, id)
            IN (/\ before.status = "active"
                /\ before.targetType \in DerivedTargetTypes
                /\ before.currentValue = before.targetValue
                /\ Aggregate(workouts, before.targetType) >= before.targetValue)
               => Rec(goals, id).status = "completed"

\* C17: calculateStreak is the length of the run of consecutive calendar
\* days with a workout that ends today or, when today has none, yesterday.
C17_StreakIsRunEndingTodayOrYesterday ==
    last.op = "Dashboard" =>
        LET D == DateSet(workouts)
            today == LocalToday(env)
        IN last.data.stats.streak =
              (IF today \in D THEN RunEndingAt(D, today)
               ELSE RunEndingAt(D, today - 1))

\* C18: calculateStreak is 0 for the empty collection and when the most
\* recent workout date is more than one day before today; otherwise it counts
\* the distinct dates from the most recent one down to the first gap of more
\* than one day, so it never exceeds the number of distinct dates.
C18_StreakZeroOrLeadingRun ==
    last.op = "Dashboard" =>
        LET D == DateSet(workouts)
            today == LocalToday(env)
            streak == last.data.stats.streak
        IN /\ streak <= Cardinality(D)
           /\ IF D = {} THEN streak = 0
              ELSE IF today - MaxOf(D) > 1 THEN streak = 0
              ELSE streak = RunEndingAt(D, MaxOf(D))

\* C19: the weekly summary has 7 entries labelled Sun..Sat for the 7 days
\* from the Sunday on or before today, each with the count, duration and
\* calories of exactly the workouts dated that day.
C19_WeeklySummary ==
    last.op = "Dashboard" =>
        LET weekly == last.data.weeklySummary
            sunday == SundayOnOrBefore(LocalToday(env))
        IN /\ Len(weekly) = 7
           /\ \A k \in 1..7 :
                 LET OnDay(w) == w.date = sunday + k - 1
                     ofDay == SelectSeq(workouts, OnDay)
                 IN /\ weekly[k].day = getDayNames[k]
                    /\ weekly[k].workouts = Len(ofDay)
                    /\ weekly[k].duration = SumField(ofDay, "duration")
                    /\ weekly[k].calories = SumField(ofDay, "calories")

\* C20: the exercise distribution has exactly one entry for each exercise
\* type that occurs among the workouts and none for any other type; its value
\* is the number of workouts of that type, so the values sum to the number of
\* workouts and there is no entry exactly when there is no workout.
C20_ExerciseDistribution ==
    last.op = "Dashboard" =>
        LET dist == last.data.exerciseDistribution
            present == {workouts[i].exerciseType : i \in 1..Len(workouts)}
        IN /\ Len(dist) = Cardinality(present)
           /\ \A t \in present :
                 \E i \in 1..Len(dist) :
                    /\ dist[i].name = exerciseTypeConfig[t].label
                    /\ dist[i].value =
                          Cardinality({j \in 1..Len(workouts) :
                                          workouts[j].exerciseType = t})
           /\ SumField(dist, "value") = Len(workouts)
           /\ (dist = <<>>) <=> (workouts = <<>>)

C20_Witness ==
    /\ last.op = "Dashboard"
    /\ Len(last.data.exerciseDistribution) = 2
    /\ Len(workouts) = 3

\* The operations of the goal store that write goals.
GoalMutations ==
    {"addGoal", "updateGoal", "deleteGoal", "updateProgress", "completeGoal",
     "cancelGoal", "reactivateGoal"}

OptionalTriple == {"sets", "reps", "weight"}

\* C22: in every reachable state every stored workout has sets, reps and
\* weight either all three present or all three absent.
C22_SetsRepsWeightTogether ==
    \A i \in 1..Len(workouts) :
        \/ OptionalTriple \subseteq DOMAIN workouts[i]
        \/ OptionalTriple \cap DOMAIN workouts[i] = {}

C27_GoalOperationsKeepWorkouts ==
    /\ last.op \in GoalMutations => workouts = preWorkouts
    /\ workouts # preWorkouts => last.op \in WorkoutMutations \cup {"reload"}

C27_Witness ==
    /\ last.op \in GoalMutations
    /\ goals # preGoals
    /\ workouts # <<>>
    /\ workouts = preWorkouts

\* C28: in every reachable state a goal whose status is completed has
\* currentValue >= targetValue.
C28_CompletedReachedTarget ==
    \A i \in 1..Len(goals) :
        goals[i].status = "completed" =>
            goals[i].currentValue >= goals[i].targetValue

C30_ThemeStore ==
    /\ themeStore.theme # "system" => themeStore.resolvedTheme = themeStore.theme
    /\ last.op = "toggleTheme" =>
          /\ themeStore.resolvedTheme \in {"light", "dark"}
          /\ themeStore.resolvedTheme # last.data.before.resolvedTheme
          /\ themeStore.theme = themeStore.resolvedTheme
    /\ last.op = "systemThemeChange" =>
          IF last.data.before.theme = "system"
          THEN /\ themeStore.theme = "system"
               /\ themeStore.resolvedTheme =
                     (IF last.data.matches THEN "dark" ELSE "light")
          ELSE themeStore = last.data.before

C30_Witness ==
    /\ last.op = "systemThemeChange"
    /\ last.data.before.theme = "light"
    /\ last.data.matches
    /\ themeStore.resolvedTheme = "light"

\* The failures of a workout form submission that C21 names.
FailsNamedRule(v) ==
    \/ Len(v.name) < 2 \/ Len(v.name) > 50
    \/ v.duration = NaN \/ v.duration.num <= 0
    \/ v.duration.num > 600 * v.duration.den
    \/ v.calories = NaN \/ v.calories.num <= 0
    \/ v.calories.num > 10000 * v.calories.den
    \/ ("notes" \in DOMAIN v /\ Len(v.notes) > 500)

C23_GoalFormRules ==
    /\ \A i \in 1..Len(goals) :
          goals[i].targetValue > 0 /\ goals[i].endDate > goals[i].startDate
    /\ (/\ last.op = "submitGoalForm"
        /\ \/ last.data.values.targetValue = NaN
           \/ last.data.values.targetValue.num <= 0
           \/ last.data.values.endDate <= last.data.values.startDate)
       => /\ last.calls \cap {"addGoal", "updateGoal"} = {}
          /\ goals = preGoals

C23_Witness ==
    /\ last.op = "submitGoalForm"
    /\ last.data.values.endDate = last.data.values.startDate
    /\ "endDate" \in last.data.errors
    /\ goals # sampleGoals
    /\ \E i \in 1..Len(goals) : goals[i].endDate = goals[i].startDate + 1

AllowedStatusChanges ==
    {<<"active", "completed">>, <<"active", "cancelled">>,
     <<"completed", "active">>, <<"cancelled", "active">>}

\* C29: through the Goals page controls the progress, Complete and Cancel
\* actions are invoked only for an active goal (Complete and Cancel only
\* while its progress is below 100%), Reactivate only for a completed or
\* cancelled goal, and updateProgress only with a number >= 0; every status
\* change made through the page is active -> completed, active -> cancelled
\* or {completed, cancelled} -> active.
C29_GoalsPageControls ==
    /\ "updateProgress" \in last.calls =>
          /\ Rec(preGoals, last.id).status = "active"
          /\ last.value >= 0
    /\ last.calls \cap {"completeGoal", "cancelGoal"} # {} =>
          /\ Rec(preGoals, last.id).status = "active"
          /\ Rec(preGoals, last.id).currentValue
                < Rec(preGoals, last.id).targetValue
    /\ "reactivateGoal" \in last.calls =>
          Rec(preGoals, last.id).status \in {"completed", "cancelled"}
    /\ \A id \in Ids(preGoals) \cap Ids(goals) :
          \/ Rec(goals, id).status = Rec(preGoals, id).status
          \/ <<Rec(preGoals, id).status, Rec(goals, id).status>>
                \in AllowedStatusChanges

C29_Witness ==
    /\ "updateProgress" \in last.calls
    /\ Rec(goals, last.id).status = "completed"
    /\ \E i \in 1..Len(preGoals) : preGoals[i].status = "cancelled"

====
